---- MODULE Spec2Model ----
(***************************************************************************)
(* Model of the POI / weather search application (map.py, weather.py,      *)
(* config.py).                                                             *)
(*                                                                         *)
(* Python values that may be missing are modelled as sequences of length   *)
(* 0 or 1: <<>> is None / an absent dict key, <<v>> is the value v.        *)
(***************************************************************************)
EXTENDS Integers, Sequences, FiniteSets, TLC

VARIABLES
    \* ---- fetch_pois / overpass_request (map.py) ----
    upstream,     \* the "elements" value the mirrors serve: <<>> (key absent) or <<list>>
    q_lat, q_lon, \* search centre handed to fetch_pois
    q_limit,      \* limit handed to fetch_pois
    ov_i,         \* index into OVERPASS_URLS of the next mirror the loop tries
    ov_log,       \* requests issued so far: <<mirror index, "ok" | "exc">>
    ov_pc,        \* "idle" | "loop" | "returned" | "raised"
    ov_ret,       \* <<>> or <<JSON body>> returned by overpass_request
    fp_pc,        \* "idle" | "call" | "done" | "raised"
    fp_results,   \* the list fetch_pois returned
    \* ---- get_weather / _http_get (weather.py, config.py) ----
    cfg_key,      \* OPENWEATHER_API_KEY is not empty
    cfg_onecall,  \* OPENWEATHER_USE_ONECALL
    gw_pc,        \* "idle" | "start" | "onecall" | "current" | "forecast" | "returned" | "raised"
    gw_calls,     \* the urls _http_get was called with, in call order
    gw_oc,        \* <<>> or <<oc>>: what _fetch_onecall returned
    gw_cur,       \* <<>> or <<cur>>
    gw_fc,        \* <<>> or <<fc>>
    oc_norm,      \* <<>> or <<outcome of _normalize_onecall(oc)>>
    lg_norm,      \* <<>> or <<outcome of _normalize_from_current_forecast(cur, fc)>>
    gw_ret,       \* <<>> or <<record get_weather returned>>
    gw_err,       \* <<>> or <<exception get_weather raised>>
    h_pc,         \* _http_get: "idle" | "loop" | "returned" | "raised"
    h_n,          \* _http_get: attempts made in this call
    h_last_err,   \* _http_get: last_err
    h_log,        \* _http_get: outcome of each attempt of this call
    h_ret,        \* <<>> or <<body _http_get returned>>
    h_err,        \* <<>> or <<exception _http_get raised>>
    \* ---- the page script: session state, search handler, run_search (map.py) ----
    ss_pois,        \* st.session_state["pois"]
    ss_center,      \* <<center_lat, center_lon>>; <<>> stands for the default (16.0, 108.0)
    ss_zoom,        \* st.session_state["zoom"]
    ss_last_place,  \* st.session_state["last_place"]: <<>> or <<label>>
    ss_weather,     \* st.session_state["weather"]: <<>> or <<record>>
    app_pc,         \* "off" (no session) | "idle" | "geocode" | "poi" | "weather"
    place_name,     \* the text the search handler geocodes
    geo_depth,      \* geocode_safe: calls on the stack
    geo_attempts,   \* geolocator.geocode calls made by the handler run
    run_end,        \* how the last run of a handler ended
    rs_args,        \* <<lat, lon, place_label>> of the last run_search call, or <<>>
    rs_poi,         \* try block 1 of that call: "none" | "ok" | "exc"
    rs_wx,          \* try block 2 of that call: "none" | "ok" | "exc"
    rs_pois_ret,    \* <<>> or <<what fetch_pois returned in that call>>
    rs_wx_ret,      \* <<>> or <<what get_weather returned in that call>>
    pois_for,       \* <<>> or <<lat, lon>>: the centre ss_pois was fetched for
    weather_for,    \* <<>> or <<lat, lon>>: the centre ss_weather was fetched for
    searches        \* handler runs so far

poiVars == <<upstream, q_lat, q_lon, q_limit, ov_i, ov_log, ov_pc, ov_ret, fp_pc, fp_results>>

gwVars == <<cfg_key, cfg_onecall, gw_pc, gw_calls, gw_oc, gw_cur, gw_fc, oc_norm, lg_norm,
           gw_ret, gw_err>>

httpVars == <<h_pc, h_n, h_last_err, h_log, h_ret, h_err>>

sessionVars == <<ss_pois, ss_center, ss_zoom, ss_last_place, ss_weather, pois_for, weather_for>>

appVars == <<sessionVars, app_pc, place_name, geo_depth, geo_attempts, run_end, rs_args,
             rs_poi, rs_wx, rs_pois_ret, rs_wx_ret, searches>>

vars == <<poiVars, gwVars, httpVars, appVars>>

-----------------------------------------------------------------------------
(* Python None / missing key, and Python truthiness of an optional number. *)

None == <<>>
Some(v) == <<v>>
IsNone(x) == x = <<>>
Val(x) == x[1]

\* `not x` is False exactly when x is present and is not 0
Truthy(x) == x # <<>> /\ x[1] # 0

\* `a or b`
PyOr(a, b) == IF Truthy(a) THEN a ELSE b

\* `a or b` for optional strings (no empty strings occur in the inputs)
StrOr(a, b) == IF a # <<>> THEN a ELSE b

-----------------------------------------------------------------------------
(* Bounds of the model.                                                    *)

MaxLen == 3       \* longest raw element list
MaxLimit == 3     \* largest limit
MaxFcLen == 3     \* longest freely built forecast list
RecursionLimit == 4   \* calls of geocode_safe the interpreter's stack holds
MaxSearches == 2  \* handler runs of one session

-----------------------------------------------------------------------------
(* map.py: configuration                                                   *)

OVERPASS_URLS == <<"overpass.kumi.systems", "overpass-api.de", "overpass.openstreetmap.ru">>

-----------------------------------------------------------------------------
(* map.py: haversine.  Coordinates of the model are whole degrees 0..2;    *)
(* the table holds round(haversine(lat1, 0, lat2, dlon)) in metres, as     *)
(* the Python function computes it (it depends on lon1, lon2 only through  *)
(* |lon2 - lon1|).  HavTable[lat1 + 1][lat2 + 1][dlon + 1].                *)

HavTable ==
    << << <<0, 111195, 222390>>,      <<111195, 157249, 248629>>, <<222390, 248629, 314475>> >>,
       << <<111195, 157249, 248629>>, <<0, 111178, 222356>>,      <<111195, 157225, 248569>> >>,
       << <<222390, 248629, 314475>>, <<111195, 157225, 248569>>, <<0, 111127, 222254>> >> >>

Abs(x) == IF x < 0 THEN -x ELSE x

haversine(lat1, lon1, lat2, lon2) == HavTable[lat1 + 1][lat2 + 1][Abs(lon2 - lon1) + 1]

-----------------------------------------------------------------------------
(* map.py: raw Overpass elements.  Every field may be missing.             *)

NoTags == [name |-> None, brand |-> None, amenity |-> None, shop |-> None,
           tourism |-> None, leisure |-> None, housenumber |-> None,
           street |-> None, city |-> None, province |-> None]

Element(id, type, lat, lon, center, tags) ==
    [id |-> id, type |-> type, lat |-> lat, lon |-> lon, center |-> center, tags |-> tags]

Center(lat, lon) == Some([lat |-> lat, lon |-> lon])

\* The raw elements the upstream lists are built from.
Elems ==
    { Element(Some(1), Some("node"), Some(1), Some(2), None,
              [NoTags EXCEPT !.name = Some("A"), !.amenity = Some("cafe")]),
      \* same id, no "type" key (defaults to "node"), elsewhere
      Element(Some(1), None, Some(2), Some(2), None,
              [NoTags EXCEPT !.name = Some("B"), !.shop = Some("supermarket")]),
      \* a way: coordinates in its center sub-object, brand only
      Element(Some(1), Some("way"), None, None, Center(Some(1), Some(1)),
              [NoTags EXCEPT !.brand = Some("C"), !.street = Some("S"), !.city = Some("H")]),
      \* no coordinates at all
      Element(Some(2), Some("node"), None, None, None,
              [NoTags EXCEPT !.name = Some("D")]),
      Element(Some(2), Some("node"), Some(2), Some(1), None,
              [NoTags EXCEPT !.name = Some("E"), !.tourism = Some("hotel")]),
      \* id 0
      Element(Some(0), Some("node"), Some(1), Some(1), None,
              [NoTags EXCEPT !.name = Some("F")]),
      \* no id
      Element(None, Some("node"), Some(2), Some(2), None, NoTags),
      \* latitude 0
      Element(Some(3), Some("way"), Some(0), Some(1), None,
              [NoTags EXCEPT !.name = Some("G"), !.leisure = Some("park")]),
      \* longitude 0, and a center sub-object as well
      Element(Some(3), Some("node"), Some(1), Some(0), Center(Some(2), Some(2)),
              [NoTags EXCEPT !.name = Some("H")]) }

ElementLists == UNION { [1..n -> Elems] : n \in 0..MaxLen }

\* Search centres
Centers == { <<1, 1>>, <<2, 0>> }

-----------------------------------------------------------------------------
(* map.py: make_address, fetch_pois                                        *)

\* the addr:* tags that are present, in the fixed order (", ".join is kept
\* as the sequence of its parts)
make_address(tags) ==
    LET keys == <<tags.housenumber, tags.street, tags.city, tags.province>>
        F[i \in 0..4] == IF i = 0 THEN <<>>
                         ELSE IF keys[i] # None THEN Append(F[i-1], Val(keys[i]))
                         ELSE F[i-1]
    IN F[4]

\* e.get("type", "node")
ElemType(e) == IF e.type = None THEN "node" ELSE Val(e.type)

\* (e.get("center") or {}).get(k)
CenterLat(e) == IF e.center = None THEN None ELSE Val(e.center).lat
CenterLon(e) == IF e.center = None THEN None ELSE Val(e.center).lon

\* el_lat, el_lon: e.get("lat") or (e.get("center") or {}).get("lat")
ElLat(e) == PyOr(e.lat, CenterLat(e))
ElLon(e) == PyOr(e.lon, CenterLon(e))

\* the dict appended to results
MakePoi(e, lat, lon) ==
    [id         |-> Val(e.id),
     osm_type   |-> ElemType(e),
     name       |-> StrOr(e.tags.name, StrOr(e.tags.brand, Some("(no name)"))),
     lat        |-> Val(ElLat(e)),
     lon        |-> Val(ElLon(e)),
     distance_m |-> haversine(lat, lon, Val(ElLat(e)), Val(ElLon(e))),
     category   |-> StrOr(e.tags.amenity, StrOr(e.tags.shop,
                        StrOr(e.tags.tourism, e.tags.leisure))),
     address    |-> make_address(e.tags)]

\* mutant: no deduplication
SkipByIdNoSeen(e, seen) == ~Truthy(e.id)

\* `if not eid or (etype, eid) in seen: continue`
SkipById(e, seen) == ~Truthy(e.id) \/ <<ElemType(e), Val(e.id)>> \in seen

\* `if not el_lat or not el_lon: continue`
SkipByCoords(e) == ~Truthy(ElLat(e)) \/ ~Truthy(ElLon(e))

\* the `for e in elements` loop from element i on
RECURSIVE ScanElements(_, _, _, _, _, _)
ScanElements(elements, i, seen, results, lat, lon) ==
    IF i > Len(elements) THEN results
    ELSE LET e == elements[i] IN
         IF SkipById(e, seen)
         THEN ScanElements(elements, i + 1, seen, results, lat, lon)
         ELSE LET seen2 == seen \cup { <<ElemType(e), Val(e.id)>> } IN
              IF SkipByCoords(e)
              THEN ScanElements(elements, i + 1, seen2, results, lat, lon)
              ELSE ScanElements(elements, i + 1, seen2,
                                Append(results, MakePoi(e, lat, lon)), lat, lon)

\* list.sort(key=distance_m): stable, ascending.  p goes after every entry
\* that is not farther.
InsertByDistance(sorted, p) ==
    LET k == Cardinality({ j \in 1..Len(sorted) : sorted[j].distance_m <= p.distance_m })
    IN SubSeq(sorted, 1, k) \o <<p>> \o SubSeq(sorted, k + 1, Len(sorted))

RECURSIVE SortFrom(_, _, _)
SortFrom(s, i, acc) ==
    IF i > Len(s) THEN acc ELSE SortFrom(s, i + 1, InsertByDistance(acc, s[i]))

SortByDistance(s) == SortFrom(s, 1, <<>>)

\* results[:limit], limit > 0
Truncate(s, limit) == SubSeq(s, 1, IF limit < Len(s) THEN limit ELSE Len(s))

\* data.get("elements", [])
ElementsOf(data) == IF data.elements = None THEN <<>> ELSE Val(data.elements)

\* mutant: truncate, then sort
TruncateThenSort(data, lat, lon, limit) ==
    SortByDistance(Truncate(ScanElements(ElementsOf(data), 1, {}, <<>>, lat, lon), limit))

\* the part of fetch_pois after overpass_request returned `data`
NormalizePois(data, lat, lon, limit) ==
    Truncate(SortByDistance(ScanElements(ElementsOf(data), 1, {}, <<>>, lat, lon)), limit)

-----------------------------------------------------------------------------
(* map.py: overpass_request, one action per request of the loop            *)

\* what mirror i answers when it answers
MirrorBody(i) == [generator |-> OVERPASS_URLS[i], elements |-> upstream]

\* requests.post, raise_for_status and r.json() all pass: return r.json()
OverpassSucceed ==
    /\ ov_pc = "loop"
    /\ ov_i <= Len(OVERPASS_URLS)
    /\ ov_log' = Append(ov_log, <<ov_i, "ok">>)
    /\ ov_ret' = Some(MirrorBody(ov_i))
    /\ ov_pc' = "returned"
    /\ UNCHANGED <<upstream, q_lat, q_lon, q_limit, ov_i, fp_pc, fp_results>>
    /\ UNCHANGED <<gwVars, httpVars, appVars>>

\* mutant: a failure skips a mirror
SkipMirror(i) == i + 2

\* the mirror after the one that failed
NextMirror(i) == i + 1

\* any exception in the try block: sleep 0.8 s and go on with the next url
OverpassFail ==
    /\ ov_pc = "loop"
    /\ ov_i <= Len(OVERPASS_URLS)
    /\ ov_log' = Append(ov_log, <<ov_i, "exc">>)
    /\ ov_i' = NextMirror(ov_i)
    /\ UNCHANGED <<upstream, q_lat, q_lon, q_limit, ov_pc, ov_ret, fp_pc, fp_results>>
    /\ UNCHANGED <<gwVars, httpVars, appVars>>

\* the loop ran out of urls: RuntimeError, which fetch_pois lets through
OverpassRaise ==
    /\ ov_pc = "loop"
    /\ ov_i > Len(OVERPASS_URLS)
    /\ ov_pc' = "raised"
    /\ fp_pc' = "raised"
    /\ UNCHANGED <<upstream, q_lat, q_lon, q_limit, ov_i, ov_log, ov_ret, fp_results>>
    /\ UNCHANGED <<gwVars, httpVars, appVars>>

\* fetch_pois from line 110 on
FetchPoisReturn ==
    /\ ov_pc = "returned"
    /\ fp_pc = "call"
    /\ fp_results' = NormalizePois(Val(ov_ret), q_lat, q_lon, q_limit)
    /\ fp_pc' = "done"
    /\ UNCHANGED <<upstream, q_lat, q_lon, q_limit, ov_i, ov_log, ov_pc, ov_ret>>
    /\ UNCHANGED <<gwVars, httpVars, appVars>>


-----------------------------------------------------------------------------
(* Properties of fetch_pois / overpass_request, checked under SpecPoi      *)

Mirrors == 1..Len(OVERPASS_URLS)

\* C1: overpass_request tries the mirrors in list order, one request each;
\* every request before the last one failed; it returns exactly when the
\* last request succeeded, and then with that mirror's JSON; it raises only
\* when every mirror was tried and failed.
C1_MirrorsInOrderUntilFirstSuccess ==
    /\ Len(ov_log) <= Len(OVERPASS_URLS)
    /\ \A k \in 1..Len(ov_log) : ov_log[k][1] = k
    /\ \A k \in 1..(Len(ov_log) - 1) : ov_log[k][2] = "exc"
    /\ ov_pc = "returned" =>
          /\ Len(ov_log) >= 1
          /\ ov_log[Len(ov_log)][2] = "ok"
          /\ ov_ret = Some([generator |-> OVERPASS_URLS[Len(ov_log)], elements |-> upstream])
    /\ ov_pc = "raised" =>
          /\ ov_ret = None
          /\ { ov_log[k][1] : k \in 1..Len(ov_log) } = Mirrors
          /\ \A k \in 1..Len(ov_log) : ov_log[k][2] = "exc"
    /\ ov_pc = "loop" =>
          /\ ov_ret = None
          /\ \A k \in 1..Len(ov_log) : ov_log[k][2] = "exc"

\* the first two mirrors failed, the third answered, and fetch_pois went on
C1_Witness ==
    /\ ov_pc = "returned"
    /\ ov_log = << <<1, "exc">>, <<2, "exc">>, <<3, "ok">> >>
    /\ fp_pc = "done"

\* ---- the raw list, described element by element ----

RawElements == IF upstream = None THEN <<>> ELSE Val(upstream)

\* the (type, id) an element is deduplicated on, for an element the loop keys
KeyOf(e) == <<ElemType(e), Val(e.id)>>

\* element i is the first one the loop keys with its (type, id)
FirstOfKey(els, i) ==
    /\ Truthy(els[i].id)
    /\ \A j \in 1..(i - 1) : Truthy(els[j].id) => KeyOf(els[j]) # KeyOf(els[i])

\* element i is in the list before it is sorted and truncated
Emitted(els, i) == FirstOfKey(els, i) /\ Truthy(ElLat(els[i])) /\ Truthy(ElLon(els[i]))

DistOf(e) == haversine(q_lat, q_lon, Val(ElLat(e)), Val(ElLon(e)))

InResults(p) == \E k \in 1..Len(fp_results) : fp_results[k] = p

Min2(a, b) == IF a < b THEN a ELSE b

\* C5: the result is the first `limit` entries of the whole deduplicated set
\* in ascending distance: at most limit entries, as many as there are when
\* fewer, non-decreasing in distance_m, every entry built from an element of
\* the set, and no element of the set that was left out is strictly nearer
\* than a returned one.
C5_SortThenTruncate ==
    fp_pc = "done" =>
       LET els == RawElements
           kept == { i \in 1..Len(els) : Emitted(els, i) }
       IN /\ Len(fp_results) <= q_limit
          /\ Len(fp_results) = Min2(q_limit, Cardinality(kept))
          /\ \A k \in 1..(Len(fp_results) - 1) :
                 fp_results[k].distance_m <= fp_results[k + 1].distance_m
          /\ \A k \in 1..Len(fp_results) :
                 \E i \in kept : fp_results[k] = MakePoi(els[i], q_lat, q_lon)
          /\ \A i \in kept :
                 \/ InResults(MakePoi(els[i], q_lat, q_lon))
                 \/ \A k \in 1..Len(fp_results) : fp_results[k].distance_m <= DistOf(els[i])

\* a far element came first upstream and was cut, a nearer later one is returned
C5_Witness ==
    /\ fp_pc = "done"
    /\ LET els == RawElements IN
       \E i, j \in 1..Len(els) :
          /\ i < j
          /\ Emitted(els, i) /\ Emitted(els, j)
          /\ DistOf(els[i]) > DistOf(els[j])
          /\ ~InResults(MakePoi(els[i], q_lat, q_lon))
          /\ InResults(MakePoi(els[j], q_lat, q_lon))

\* the (type, id) pairs that occur more than once in the raw list
HasId(e) == e.id # None
RawKey(e) == <<ElemType(e), Val(e.id)>>
Repeated(els, i) ==
    HasId(els[i]) /\ \E j \in 1..Len(els) : j # i /\ HasId(els[j]) /\ RawKey(els[j]) = RawKey(els[i])
FirstRaw(els, i) ==
    HasId(els[i]) /\ \A j \in 1..(i - 1) : HasId(els[j]) => RawKey(els[j]) # RawKey(els[i])

PoisOfKey(key) == { k \in 1..Len(fp_results) : <<fp_results[k].osm_type, fp_results[k].id>> = key }

\* an element carries coordinates: lat and lon directly, or both in center
CarriesCoords(e) ==
    \/ e.lat # None /\ e.lon # None
    \/ e.center # None /\ CenterLat(e) # None /\ CenterLon(e) # None

\* no id, latitude or longitude of the list is 0
NoZero(els) ==
    \A i \in 1..Len(els) :
        /\ els[i].id # Some(0)
        /\ els[i].lat # Some(0) /\ els[i].lon # Some(0)
        /\ els[i].center # None => (CenterLat(els[i]) # Some(0) /\ CenterLon(els[i]) # Some(0))

\* C6 as stated: every (type, id) that occurs more than once yields exactly
\* one POI (here for a pair of which an occurrence has coordinates, with
\* nothing cut by the limit and no 0 in the input).
C6_ExactlyOnePoiPerRepeatedKey ==
    (fp_pc = "done" /\ q_limit >= Len(RawElements) /\ NoZero(RawElements)) =>
        \A i \in 1..Len(RawElements) :
            (Repeated(RawElements, i) /\ CarriesCoords(RawElements[i]))
                => Cardinality(PoisOfKey(RawKey(RawElements[i]))) = 1

\* C6 (amended): every (type, id) that occurs more than once yields at most
\* one POI, and a POI that is emitted is built from the first occurrence of
\* its (type, id); no two POIs of a result share (osm_type, id).
C6_AtMostOnePoiFromFirstOccurrence ==
    fp_pc = "done" =>
       LET els == RawElements IN
       /\ \A i \in 1..Len(els) :
             Repeated(els, i) => Cardinality(PoisOfKey(RawKey(els[i]))) <= 1
       /\ \A k \in 1..Len(fp_results) :
             \E i \in 1..Len(els) :
                 /\ FirstRaw(els, i)
                 /\ RawKey(els[i]) = <<fp_results[k].osm_type, fp_results[k].id>>
                 /\ fp_results[k] = MakePoi(els[i], q_lat, q_lon)
       /\ \A k, l \in 1..Len(fp_results) :
             k # l => <<fp_results[k].osm_type, fp_results[k].id>>
                       # <<fp_results[l].osm_type, fp_results[l].id>>

\* a repeated (type, id) whose later occurrence lies elsewhere and has
\* another name: the POI of the first occurrence is in the result
C6_Witness ==
    /\ fp_pc = "done"
    /\ LET els == RawElements IN
       \E i, j \in 1..Len(els) :
          /\ i < j
          /\ FirstRaw(els, i) /\ HasId(els[j]) /\ RawKey(els[j]) = RawKey(els[i])
          /\ Emitted(els, i)
          /\ ~SkipByCoords(els[j])
          /\ MakePoi(els[j], q_lat, q_lon) # MakePoi(els[i], q_lat, q_lon)
          /\ InResults(MakePoi(els[i], q_lat, q_lon))
          /\ Cardinality(PoisOfKey(RawKey(els[i]))) = 1

\* C10 as stated: with limit at least the number of raw elements, every
\* element that carries an id and coordinates and does not repeat an earlier
\* (type, id) has a POI in the result, 0 values included.
C10_OnlyIdDuplicateOrCoordsSkip ==
    (fp_pc = "done" /\ q_limit >= Len(RawElements)) =>
        \A i \in 1..Len(RawElements) :
            (FirstRaw(RawElements, i) /\ CarriesCoords(RawElements[i]))
                => PoisOfKey(RawKey(RawElements[i])) # {}

-----------------------------------------------------------------------------
(* weather.py, config.py: constants                                        *)

ONECALL_URL  == "data/3.0/onecall"
CURRENT_URL  == "data/2.5/weather"
FORECAST_URL == "data/2.5/forecast"

HTTP_ATTEMPTS == 3        \* for _ in range(3)
HOURLY_MAX == 24          \* [:24]
DAILY_MAX_ONECALL == 8    \* [:8]
DAILY_MAX_LEGACY == 7     \* [:7]

\* the outcome of a call: a value, or an exception
Ok(v) == [exc |-> "", val |-> <<v>>]
Raise(e) == [exc |-> e, val |-> <<>>]

\* the outcomes of a list comprehension: the first exception, else the list
AllOk(rs) ==
    IF \E k \in 1..Len(rs) : rs[k].exc # ""
    THEN Raise(rs[CHOOSE k \in 1..Len(rs) :
                     rs[k].exc # "" /\ \A j \in 1..(k - 1) : rs[j].exc = ""].exc)
    ELSE Ok([k \in 1..Len(rs) |-> rs[k].val[1]])

-----------------------------------------------------------------------------
(* weather.py: upstream payloads.  Every key may be missing.               *)

WeatherEntry(desc, icon) == [description |-> desc, icon |-> icon]

\* an entry of "current" or "hourly" of the one-call payload
OcPoint(dt, temp, pop, weather) ==
    [dt |-> dt, temp |-> temp, feels_like |-> temp, humidity |-> Some(70),
     wind_speed |-> Some(3), wind_deg |-> Some(90), uvi |-> Some(5),
     pressure |-> Some(1010), clouds |-> Some(40), pop |-> pop, weather |-> weather]

\* the empty dict {}
EmptyPoint ==
    [dt |-> None, temp |-> None, feels_like |-> None, humidity |-> None,
     wind_speed |-> None, wind_deg |-> None, uvi |-> None,
     pressure |-> None, clouds |-> None, pop |-> None, weather |-> None]

\* an entry of "daily" of the one-call payload; temp is <<>> or <<[min, max]>>
OcDay(dt, temp, pop, weather) ==
    [dt |-> dt, temp |-> temp, pop |-> pop, humidity |-> Some(70),
     wind_speed |-> Some(3), weather |-> weather]

MinMax(lo, hi) == Some([min |-> Some(lo), max |-> Some(hi)])

Clear == Some(<< WeatherEntry(Some("clear"), Some("01d")) >>)
Rain  == Some(<< WeatherEntry(Some("rain"), Some("10d")) >>)

\* has_current: the payload has the key "current"; current = <<>> is null
OcPayload(tz, has_current, current, hourly, daily) ==
    [timezone_offset |-> tz, has_current |-> has_current, current |-> current,
     hourly |-> hourly, daily |-> daily]

OnecallBodies ==
    { \* complete
      OcPayload(Some(25200), TRUE, Some(OcPoint(Some(1000), Some(30), Some(10), Clear)),
                Some(<< OcPoint(Some(3600), Some(29), Some(20), Rain),
                        OcPoint(Some(7200), Some(28), None, Clear) >>),
                Some(<< OcDay(Some(0), MinMax(22, 31), Some(50), Rain) >>)),
      \* only optional parts missing: no weather array, no temp pair, no offset
      OcPayload(None, TRUE, Some(OcPoint(Some(1000), Some(30), None, None)),
                Some(<< OcPoint(Some(3600), None, None, Some(<<>>)) >>),
                Some(<< OcDay(Some(0), None, None, None) >>)),
      \* no "current" key
      OcPayload(Some(25200), FALSE, None,
                Some(<< OcPoint(Some(3600), Some(29), Some(20), Rain) >>), None),
      \* "current": null
      OcPayload(Some(25200), TRUE, None,
                Some(<< OcPoint(Some(3600), Some(29), Some(20), Rain) >>),
                Some(<< OcDay(Some(0), MinMax(22, 31), Some(50), Rain) >>)),
      \* "current": {}
      OcPayload(Some(25200), TRUE, Some(EmptyPoint), None, None),
      \* "current" without "dt"
      OcPayload(Some(25200), TRUE, Some(OcPoint(None, Some(30), Some(10), Clear)), None, None),
      \* an hourly entry without "dt"
      OcPayload(Some(25200), TRUE, Some(OcPoint(Some(1000), Some(30), Some(10), Clear)),
                Some(<< OcPoint(None, Some(29), Some(20), Rain) >>), None) }

\* the current-conditions payload of the 2.5 API
CurPayload(timezone, coord, dt, main, wind, clouds, weather) ==
    [timezone |-> timezone, coord |-> coord, dt |-> dt, main |-> main, wind |-> wind,
     clouds |-> clouds, weather |-> weather]

Main(temp) == Some([temp |-> Some(temp), feels_like |-> Some(temp + 1),
                    humidity |-> Some(70), pressure |-> Some(1010)])

CurrentBodies ==
    { CurPayload(Some(25200), Some([lon |-> Some(105)]), Some(1000), Main(30),
                 Some([speed |-> Some(3), deg |-> Some(90)]), Some([all |-> Some(40)]), Clear),
      \* timezone 0: the offset comes from the longitude
      CurPayload(Some(0), Some([lon |-> Some(45)]), Some(1000), Main(30),
                 Some([speed |-> Some(3), deg |-> Some(90)]), None, Some(<<>>)),
      \* nothing but an empty object
      CurPayload(None, None, None, None, None, None, None) }

\* an entry of the forecast list
FcItem(dt, main, pop, weather) ==
    [dt |-> dt, main |-> main, pop |-> pop, wind |-> Some([speed |-> Some(3)]),
     weather |-> weather]

FcItems ==
    { FcItem(Some(0), Main(20), Some(10), Clear),
      FcItem(Some(64800), Main(25), Some(50), Rain),
      FcItem(Some(75600), Main(15), None, None),
      FcItem(Some(90000), Main(30), Some(80), Rain),
      \* no "main"
      FcItem(Some(3600), None, Some(20), None) }

\* forecast lists that span more dates than the legacy path keeps; the
\* dates come out of order and some come twice
LongDays == { <<0, 1, 2, 3, 4, 5, 6, 7, 8>>,
              <<3, 1, 3, 2, 5, 4, 1, 6, 8, 7, 9, 0, 8>> }

LongList(days) ==
    [k \in 1..Len(days) |->
        FcItem(Some(days[k] * 86400 + 3600 * (k % 3)), Main(20 + ((k * 7) % 5)),
               Some((k * 30) % 100), Clear)]

ForecastLists ==
    UNION { [1..n -> FcItems] : n \in 0..MaxFcLen } \cup { LongList(d) : d \in LongDays }

ForecastBodies == { [list |-> None] } \cup { [list |-> Some(l)] : l \in ForecastLists }

-----------------------------------------------------------------------------
(* weather.py: the normalizers                                             *)

\* _to_local_ts
_to_local_ts(ts_utc, tz_offset) == ts_utc + tz_offset

\* (x.get("weather") or [{}])[0]
FirstWeather(weather) ==
    IF weather = None \/ Val(weather) = <<>> THEN WeatherEntry(None, None) ELSE Val(weather)[1]

\* x.get(key, 0)
GetOr0(x) == IF x = None THEN 0 ELSE Val(x)

\* norm_current: c["dt"] raises KeyError when there is no "dt"
norm_current(c, tz_offset) ==
    IF c.dt = None THEN Raise("KeyError")
    ELSE Ok([dt_local |-> _to_local_ts(Val(c.dt), tz_offset),
             temp |-> c.temp, feels_like |-> c.feels_like, humidity |-> c.humidity,
             wind_speed |-> c.wind_speed, wind_deg |-> c.wind_deg, uvi |-> c.uvi,
             pressure |-> c.pressure, clouds |-> c.clouds, pop |-> GetOr0(c.pop),
             desc |-> FirstWeather(c.weather).description,
             icon |-> FirstWeather(c.weather).icon])

norm_hour(h, tz_offset) ==
    IF h.dt = None THEN Raise("KeyError")
    ELSE Ok([dt_local |-> _to_local_ts(Val(h.dt), tz_offset),
             temp |-> h.temp, pop |-> GetOr0(h.pop), humidity |-> h.humidity,
             wind_speed |-> h.wind_speed,
             desc |-> FirstWeather(h.weather).description,
             icon |-> FirstWeather(h.weather).icon])

norm_day(d, tz_offset) ==
    IF d.dt = None THEN Raise("KeyError")
    ELSE Ok([dt_local |-> _to_local_ts(Val(d.dt), tz_offset),
             t_min |-> IF d.temp = None THEN None ELSE Val(d.temp).min,
             t_max |-> IF d.temp = None THEN None ELSE Val(d.temp).max,
             pop |-> GetOr0(d.pop), humidity |-> d.humidity, wind_speed |-> d.wind_speed,
             desc |-> FirstWeather(d.weather).description,
             icon |-> FirstWeather(d.weather).icon])

\* payload.get(key, [])[:n]
ListOf(x, n) == IF x = None THEN <<>> ELSE Truncate(Val(x), n)

\* `current` is neither None nor {}
CurrentTruthy(payload) ==
    payload.has_current /\ payload.current # None /\ Val(payload.current) # EmptyPoint

_normalize_onecall(payload) ==
    LET tz_offset == GetOr0(payload.timezone_offset)
        hourly == ListOf(payload.hourly, HOURLY_MAX)
        daily == ListOf(payload.daily, DAILY_MAX_ONECALL)
        cur == IF CurrentTruthy(payload)
               THEN norm_current(Val(payload.current), tz_offset) ELSE Ok(None)
        hs == AllOk([k \in 1..Len(hourly) |-> norm_hour(hourly[k], tz_offset)])
        ds == AllOk([k \in 1..Len(daily) |-> norm_day(daily[k], tz_offset)])
    IN IF cur.exc # "" THEN Raise(cur.exc)
       ELSE IF hs.exc # "" THEN Raise(hs.exc)
       ELSE IF ds.exc # "" THEN Raise(ds.exc)
       ELSE Ok([source |-> "onecall_3_0", tz_offset |-> tz_offset,
                current |-> IF CurrentTruthy(payload) THEN cur.val ELSE None,
                hourly |-> hs.val[1], daily |-> ds.val[1]])

\* (x.get(k) or {}): the fields of a nested object that may be missing
MainOf(x) == IF x.main = None
             THEN [temp |-> None, feels_like |-> None, humidity |-> None, pressure |-> None]
             ELSE Val(x.main)
WindOf(x) == IF x.wind = None THEN [speed |-> None, deg |-> None]
             ELSE [speed |-> Val(x.wind).speed,
                   deg |-> IF "deg" \in DOMAIN Val(x.wind) THEN Val(x.wind).deg ELSE None]
CloudsOf(x) == IF x.clouds = None THEN [all |-> None] ELSE Val(x.clouds)

\* tz_offset of the legacy path: cur.timezone, or 240 s per degree of longitude
LegacyTzOffset(cur) ==
    IF GetOr0(cur.timezone) # 0 THEN GetOr0(cur.timezone)
    ELSE (IF cur.coord = None THEN 0 ELSE GetOr0(Val(cur.coord).lon)) * 240

\* time.strftime("%Y-%m-%d", time.gmtime(ts)): the date, as days since the epoch
DayOf(ts) == ts \div 86400

\* min(a, b) / max(a, b) of two optional numbers: TypeError when one is None
PyMin(a, b) == IF a = None \/ b = None THEN Raise("TypeError")
               ELSE Ok(IF Val(b) < Val(a) THEN b ELSE a)
PyMax(a, b) == IF a = None \/ b = None THEN Raise("TypeError")
               ELSE Ok(IF Val(b) > Val(a) THEN b ELSE a)

\* the index of `day` in by_date, 0 when it is not a key
IndexOfDay(by_date, day) ==
    IF \E k \in 1..Len(by_date) : by_date[k].day = day
    THEN CHOOSE k \in 1..Len(by_date) : by_date[k].day = day
    ELSE 0

\* what one group keeps when an entry of its date comes
MergeGroup(g, temp, pop) ==
    LET lo == PyMin(g.t_min, temp)
        hi == PyMax(g.t_max, temp)
    IN IF lo.exc # "" THEN Raise(lo.exc)
       ELSE IF hi.exc # "" THEN Raise(hi.exc)
       ELSE Ok([g EXCEPT !.t_min = lo.val[1], !.t_max = hi.val[1],
                         !.pop = IF pop > g.pop THEN pop ELSE g.pop])

\* the `for it in (fc.get("list") or [])` loop that fills by_date, from entry i
\* on; by_date keeps its keys in insertion order
RECURSIVE GroupByDate(_, _, _, _)
GroupByDate(items, i, tz_offset, by_date) ==
    IF i > Len(items) THEN Ok(by_date)
    ELSE LET it == items[i]
             ts == _to_local_ts(GetOr0(it.dt), tz_offset)
             day == DayOf(ts)
             temp == MainOf(it).temp
             pop == GetOr0(it.pop)
             w == FirstWeather(it.weather)
             k == IndexOfDay(by_date, day)
         IN IF k = 0
            THEN GroupByDate(items, i + 1, tz_offset,
                     Append(by_date, [day |-> day, dt_local |-> ts, t_min |-> temp,
                                      t_max |-> temp, pop |-> pop,
                                      desc |-> w.description, icon |-> w.icon]))
            ELSE LET m == MergeGroup(by_date[k], temp, pop) IN
                 IF m.exc # "" THEN Raise(m.exc)
                 ELSE GroupByDate(items, i + 1, tz_offset, [by_date EXCEPT ![k] = m.val[1]])

\* a value of by_date without its key
DayPoint(g) == [dt_local |-> g.dt_local, t_min |-> g.t_min, t_max |-> g.t_max,
                pop |-> g.pop, desc |-> g.desc, icon |-> g.icon]

\* mutant: the legacy path keeps 8 groups, as the one-call path keeps 8 days
DailyOfEight(by_date) ==
    LET kept == Truncate(by_date, DAILY_MAX_ONECALL)
    IN [k \in 1..Len(kept) |-> DayPoint(kept[k])]

\* list(by_date.values())[:7]
DailyOf(by_date) ==
    LET kept == Truncate(by_date, DAILY_MAX_LEGACY)
    IN [k \in 1..Len(kept) |-> DayPoint(kept[k])]

_normalize_from_current_forecast(cur, fc) ==
    LET tz_offset == LegacyTzOffset(cur)
        cw == FirstWeather(cur.weather)
        current == [dt_local |-> _to_local_ts(GetOr0(cur.dt), tz_offset),
                    temp |-> MainOf(cur).temp, feels_like |-> MainOf(cur).feels_like,
                    humidity |-> MainOf(cur).humidity, wind_speed |-> WindOf(cur).speed,
                    wind_deg |-> WindOf(cur).deg, pressure |-> MainOf(cur).pressure,
                    clouds |-> CloudsOf(cur).all, desc |-> cw.description,
                    icon |-> cw.icon, pop |-> 0]
        list == IF fc.list = None THEN <<>> ELSE Val(fc.list)
        first == Truncate(list, HOURLY_MAX)
        hourly == [k \in 1..Len(first) |->
                      [dt_local |-> _to_local_ts(GetOr0(first[k].dt), tz_offset),
                       temp |-> MainOf(first[k]).temp, pop |-> GetOr0(first[k].pop),
                       humidity |-> MainOf(first[k]).humidity,
                       wind_speed |-> WindOf(first[k]).speed,
                       desc |-> FirstWeather(first[k].weather).description,
                       icon |-> FirstWeather(first[k].weather).icon]]
        by_date == GroupByDate(list, 1, tz_offset, <<>>)
    IN IF by_date.exc # "" THEN Raise(by_date.exc)
       ELSE Ok([source |-> "current+forecast_2_5", tz_offset |-> tz_offset,
                current |-> Some(current), hourly |-> hourly,
                daily |-> DailyOf(by_date.val[1])])

-----------------------------------------------------------------------------
(* weather.py: _http_get, one action per attempt of the loop               *)

Error(type, msg) == [type |-> type, msg |-> msg]

\* what an endpoint can answer with HTTP 200
BodiesOf(url) ==
    IF url = ONECALL_URL THEN OnecallBodies
    ELSE IF url = CURRENT_URL THEN CurrentBodies
    ELSE ForecastBodies

\* the url of the _http_get call in progress
HttpUrl == gw_calls[Len(gw_calls)]

\* a call _http_get(url, params): last_err = None, the loop starts
HttpCall(url) ==
    /\ gw_calls' = Append(gw_calls, url)
    /\ h_pc' = "loop"
    /\ h_n' = 0
    /\ h_last_err' = None
    /\ h_log' = <<>>
    /\ h_ret' = None
    /\ h_err' = None

\* mutant: the first error is kept
KeepFirstErr(old, new) == IF old # None THEN old ELSE Some(new)

\* last_err = ... (both assignments of the loop)
SetLastErr(old, new) == Some(new)

\* r.status_code == 200: return r.json()
HttpGet200 ==
    /\ h_pc = "loop"
    /\ h_n < HTTP_ATTEMPTS
    /\ \E body \in BodiesOf(HttpUrl) :
          /\ h_ret' = Some(body)
          /\ h_log' = Append(h_log, [ok |-> TRUE, body |-> Some(body), err |-> None])
    /\ h_n' = h_n + 1
    /\ h_pc' = "returned"
    /\ UNCHANGED <<h_last_err, h_err, gwVars, poiVars, appVars>>

\* any other status: last_err = WeatherError("HTTP <status>: ..."), sleep 0.6 s
HttpGetNon200 ==
    /\ h_pc = "loop"
    /\ h_n < HTTP_ATTEMPTS
    /\ LET e == Error("WeatherError", "HTTP 401") IN
          /\ h_last_err' = SetLastErr(h_last_err, e)
          /\ h_log' = Append(h_log, [ok |-> FALSE, body |-> None, err |-> Some(e)])
    /\ h_n' = h_n + 1
    /\ UNCHANGED <<h_pc, h_ret, h_err, gwVars, poiVars, appVars>>

\* requests.get or r.json() raises: last_err = e, sleep 0.6 s
HttpGetException ==
    /\ h_pc = "loop"
    /\ h_n < HTTP_ATTEMPTS
    /\ LET e == Error("Timeout", "") IN
          /\ h_last_err' = SetLastErr(h_last_err, e)
          /\ h_log' = Append(h_log, [ok |-> FALSE, body |-> None, err |-> Some(e)])
    /\ h_n' = h_n + 1
    /\ UNCHANGED <<h_pc, h_ret, h_err, gwVars, poiVars, appVars>>

\* after the loop: raise last_err if last_err else WeatherError(...)
HttpGetRaise ==
    /\ h_pc = "loop"
    /\ h_n = HTTP_ATTEMPTS
    /\ h_err' = IF h_last_err # None THEN h_last_err
                ELSE Some(Error("WeatherError", "connection"))
    /\ h_pc' = "raised"
    /\ UNCHANGED <<h_n, h_last_err, h_log, h_ret, gwVars, poiVars, appVars>>

-----------------------------------------------------------------------------
(* weather.py: get_weather                                                 *)

\* _ensure_api_key raises
EnsureApiKeyRaise ==
    /\ gw_pc = "start"
    /\ ~cfg_key
    /\ gw_pc' = "raised"
    /\ gw_err' = Some(Error("WeatherError", "no api key"))
    /\ UNCHANGED <<cfg_key, cfg_onecall, gw_calls, gw_oc, gw_cur, gw_fc, oc_norm, lg_norm,
                   gw_ret, httpVars, poiVars, appVars>>

\* if OPENWEATHER_USE_ONECALL
UseOnecall == cfg_onecall

\* OPENWEATHER_USE_ONECALL: oc = _fetch_onecall(...)
StartOnecall ==
    /\ gw_pc = "start"
    /\ cfg_key
    /\ UseOnecall
    /\ gw_pc' = "onecall"
    /\ HttpCall(ONECALL_URL)
    /\ UNCHANGED <<cfg_key, cfg_onecall, gw_oc, gw_cur, gw_fc, oc_norm, lg_norm, gw_ret,
                   gw_err, poiVars, appVars>>

\* not OPENWEATHER_USE_ONECALL: cur = _fetch_current(...)
StartLegacy ==
    /\ gw_pc = "start"
    /\ cfg_key
    /\ ~UseOnecall
    /\ gw_pc' = "current"
    /\ HttpCall(CURRENT_URL)
    /\ UNCHANGED <<cfg_key, cfg_onecall, gw_oc, gw_cur, gw_fc, oc_norm, lg_norm, gw_ret,
                   gw_err, poiVars, appVars>>

\* `if "current" in oc`
HasCurrentKey(oc) == oc.has_current

\* "current" in oc and _normalize_onecall(oc) returns: get_weather returns it
OnecallUsed ==
    /\ gw_pc = "onecall"
    /\ h_pc = "returned"
    /\ HasCurrentKey(Val(h_ret))
    /\ _normalize_onecall(Val(h_ret)).exc = ""
    /\ gw_oc' = h_ret
    /\ oc_norm' = Some(_normalize_onecall(Val(h_ret)))
    /\ gw_ret' = _normalize_onecall(Val(h_ret)).val
    /\ gw_pc' = "returned"
    /\ UNCHANGED <<cfg_key, cfg_onecall, gw_calls, gw_cur, gw_fc, lg_norm, gw_err,
                   httpVars, poiVars, appVars>>

\* "current" in oc and _normalize_onecall(oc) raises: except Exception: pass
OnecallNormalizeRaised ==
    /\ gw_pc = "onecall"
    /\ h_pc = "returned"
    /\ HasCurrentKey(Val(h_ret))
    /\ _normalize_onecall(Val(h_ret)).exc # ""
    /\ gw_oc' = h_ret
    /\ oc_norm' = Some(_normalize_onecall(Val(h_ret)))
    /\ gw_pc' = "current"
    /\ HttpCall(CURRENT_URL)
    /\ UNCHANGED <<cfg_key, cfg_onecall, gw_cur, gw_fc, lg_norm, gw_ret, gw_err, poiVars, appVars>>

\* "current" not in oc
OnecallNoCurrent ==
    /\ gw_pc = "onecall"
    /\ h_pc = "returned"
    /\ ~HasCurrentKey(Val(h_ret))
    /\ gw_oc' = h_ret
    /\ gw_pc' = "current"
    /\ HttpCall(CURRENT_URL)
    /\ UNCHANGED <<cfg_key, cfg_onecall, gw_cur, gw_fc, oc_norm, lg_norm, gw_ret, gw_err,
                   poiVars, appVars>>

\* _fetch_onecall raised: except Exception: pass
OnecallFailed ==
    /\ gw_pc = "onecall"
    /\ h_pc = "raised"
    /\ gw_pc' = "current"
    /\ HttpCall(CURRENT_URL)
    /\ UNCHANGED <<cfg_key, cfg_onecall, gw_oc, gw_cur, gw_fc, oc_norm, lg_norm, gw_ret,
                   gw_err, poiVars, appVars>>

\* cur = _fetch_current(...) returned: fc = _fetch_forecast(...)
CurrentReturned ==
    /\ gw_pc = "current"
    /\ h_pc = "returned"
    /\ gw_cur' = h_ret
    /\ gw_pc' = "forecast"
    /\ HttpCall(FORECAST_URL)
    /\ UNCHANGED <<cfg_key, cfg_onecall, gw_oc, gw_fc, oc_norm, lg_norm, gw_ret, gw_err,
                   poiVars, appVars>>

\* _fetch_current or _fetch_forecast raised: get_weather raises it
LegacyFetchFailed ==
    /\ gw_pc \in {"current", "forecast"}
    /\ h_pc = "raised"
    /\ gw_err' = h_err
    /\ gw_pc' = "raised"
    /\ UNCHANGED <<cfg_key, cfg_onecall, gw_calls, gw_oc, gw_cur, gw_fc, oc_norm, lg_norm,
                   gw_ret, httpVars, poiVars, appVars>>

\* fc returned and _normalize_from_current_forecast(cur, fc) returns
ForecastReturned ==
    /\ gw_pc = "forecast"
    /\ h_pc = "returned"
    /\ LET r == _normalize_from_current_forecast(Val(gw_cur), Val(h_ret)) IN
          /\ r.exc = ""
          /\ lg_norm' = Some(r)
          /\ gw_ret' = r.val
    /\ gw_fc' = h_ret
    /\ gw_pc' = "returned"
    /\ UNCHANGED <<cfg_key, cfg_onecall, gw_calls, gw_oc, gw_cur, oc_norm, gw_err,
                   httpVars, poiVars, appVars>>

\* fc returned and _normalize_from_current_forecast(cur, fc) raises
LegacyNormalizeRaised ==
    /\ gw_pc = "forecast"
    /\ h_pc = "returned"
    /\ LET r == _normalize_from_current_forecast(Val(gw_cur), Val(h_ret)) IN
          /\ r.exc # ""
          /\ lg_norm' = Some(r)
          /\ gw_err' = Some(Error(r.exc, "normalize"))
    /\ gw_fc' = h_ret
    /\ gw_pc' = "raised"
    /\ UNCHANGED <<cfg_key, cfg_onecall, gw_calls, gw_oc, gw_cur, oc_norm, gw_ret,
                   httpVars, poiVars, appVars>>

-----------------------------------------------------------------------------
(* map.py: the page script.  One run of the search handler or of the       *)
(* map-click handler at a time; geocode_safe, fetch_pois and get_weather    *)
(* are called and either return or raise.  st.cache_data only skips an     *)
(* upstream call whose arguments were seen before and is left out.         *)

LIMIT_N == 5      \* the least value of the limit slider

\* what the geocoder knows: place -> <<>> (no result) or <<lat, lon>>
Places == { "Ha Noi", "Hue", "Atlantis" }
PlaceLoc(place) ==
    IF place = "Ha Noi" THEN <<1, 1>> ELSE IF place = "Hue" THEN <<2, 0>> ELSE <<>>

\* points a map click can give
ClickPoints == { <<1, 1>>, <<2, 2>> }
ClickLabel(pt) == IF pt = <<1, 1>> THEN "Point (1,1)" ELSE "Point (2,2)"

\* what the spatial service can hold around a centre
AppUpstreams == { l \in ElementLists : Len(l) <= 1 }

\* records get_weather can return
AppWeatherRecords ==
    { _normalize_onecall(b).val[1] :
          b \in { x \in OnecallBodies : x.has_current /\ _normalize_onecall(x).exc = "" } }
    \cup { _normalize_from_current_forecast(c, [list |-> None]).val[1] : c \in CurrentBodies }

\* `if search_button and place_name.strip()`: loc = geocode_safe(place_name)
SearchClick ==
    /\ app_pc = "idle"
    /\ searches < MaxSearches
    /\ \E place \in Places : place_name' = place
    /\ app_pc' = "geocode"
    /\ geo_depth' = 1
    /\ geo_attempts' = 0
    /\ run_end' = "running"
    /\ rs_args' = <<>>
    /\ rs_poi' = "none" /\ rs_wx' = "none"
    /\ rs_pois_ret' = None /\ rs_wx_ret' = None
    /\ searches' = searches + 1
    /\ UNCHANGED <<sessionVars, poiVars, gwVars, httpVars>>

\* geolocator.geocode returns a location: run_search(loc.latitude, loc.longitude, ...)
GeocodeFound ==
    /\ app_pc = "geocode"
    /\ PlaceLoc(place_name) # <<>>
    /\ geo_attempts' = geo_attempts + 1
    /\ rs_args' = <<PlaceLoc(place_name)[1], PlaceLoc(place_name)[2], place_name>>
    /\ app_pc' = "poi"
    /\ UNCHANGED <<sessionVars, place_name, geo_depth, run_end, rs_poi, rs_wx, rs_pois_ret,
                   rs_wx_ret, searches, poiVars, gwVars, httpVars>>

\* geolocator.geocode returns None: st.error, no run_search
GeocodeNotFound ==
    /\ app_pc = "geocode"
    /\ PlaceLoc(place_name) = <<>>
    /\ geo_attempts' = geo_attempts + 1
    /\ app_pc' = "idle"
    /\ run_end' = "not_found"
    /\ UNCHANGED <<sessionVars, place_name, geo_depth, rs_args, rs_poi, rs_wx, rs_pois_ret,
                   rs_wx_ret, searches, poiVars, gwVars, httpVars>>

\* the call geocode_safe makes after a timeout or service error and the sleep
RetryDepth(depth) == depth + 1

\* GeocoderTimedOut or GeocoderServiceError: time.sleep(1); return geocode_safe(place)
GeocodeRetry ==
    /\ app_pc = "geocode"
    /\ geo_depth < RecursionLimit
    /\ geo_attempts' = geo_attempts + 1
    /\ geo_depth' = RetryDepth(geo_depth)
    /\ UNCHANGED <<sessionVars, app_pc, place_name, run_end, rs_args, rs_poi, rs_wx,
                   rs_pois_ret, rs_wx_ret, searches, poiVars, gwVars, httpVars>>

\* the same with the stack full: the recursive call raises RecursionError,
\* which leaves geocode_safe and ends the run of the script
GeocodeRecursionError ==
    /\ app_pc = "geocode"
    /\ geo_depth = RecursionLimit
    /\ geo_attempts' = geo_attempts + 1
    /\ app_pc' = "idle"
    /\ run_end' = "geocode_raised"
    /\ UNCHANGED <<sessionVars, place_name, geo_depth, rs_args, rs_poi, rs_wx, rs_pois_ret,
                   rs_wx_ret, searches, poiVars, gwVars, httpVars>>

\* the map was clicked and the button pressed: run_search(lat, lon, label)
MapClick ==
    /\ app_pc = "idle"
    /\ searches < MaxSearches
    /\ \E pt \in ClickPoints : rs_args' = <<pt[1], pt[2], ClickLabel(pt)>>
    /\ app_pc' = "poi"
    /\ geo_attempts' = 0
    /\ run_end' = "running"
    /\ rs_poi' = "none" /\ rs_wx' = "none"
    /\ rs_pois_ret' = None /\ rs_wx_ret' = None
    /\ searches' = searches + 1
    /\ UNCHANGED <<sessionVars, place_name, geo_depth, poiVars, gwVars, httpVars>>

\* run_search, first try block: fetch_pois returns, st.session_state.update(...)
RunSearchPoisOk ==
    /\ app_pc = "poi"
    /\ \E l \in AppUpstreams :
          LET pois == NormalizePois([generator |-> OVERPASS_URLS[1], elements |-> Some(l)],
                                    rs_args[1], rs_args[2], LIMIT_N)
          IN /\ ss_pois' = pois
             /\ rs_pois_ret' = Some(pois)
    /\ ss_center' = <<rs_args[1], rs_args[2]>>
    /\ ss_zoom' = 14
    /\ ss_last_place' = Some(rs_args[3])
    /\ pois_for' = <<rs_args[1], rs_args[2]>>
    /\ rs_poi' = "ok"
    /\ app_pc' = "weather"
    /\ UNCHANGED <<ss_weather, weather_for, place_name, geo_depth, geo_attempts, run_end,
                   rs_args, rs_wx, rs_wx_ret, searches, poiVars, gwVars, httpVars>>

\* mutant: the exception of fetch_pois leaves run_search
PoiExceptionEscapes == "idle"

\* where run_search goes on after `except Exception as e: st.error(...)`
AfterPoiException == "weather"

\* run_search, first try block: fetch_pois raises
RunSearchPoisExc ==
    /\ app_pc = "poi"
    /\ rs_poi' = "exc"
    /\ app_pc' = AfterPoiException
    /\ UNCHANGED <<sessionVars, place_name, geo_depth, geo_attempts, run_end, rs_args, rs_wx,
                   rs_pois_ret, rs_wx_ret, searches, poiVars, gwVars, httpVars>>

\* run_search, second try block: st.session_state["weather"] = get_weather(lat, lon)
RunSearchWeatherOk ==
    /\ app_pc = "weather"
    /\ \E rec \in AppWeatherRecords :
          /\ ss_weather' = Some(rec)
          /\ rs_wx_ret' = Some(rec)
    /\ weather_for' = <<rs_args[1], rs_args[2]>>
    /\ rs_wx' = "ok"
    /\ app_pc' = "idle"
    /\ run_end' = "done"
    /\ UNCHANGED <<ss_pois, ss_center, ss_zoom, ss_last_place, pois_for, place_name,
                   geo_depth, geo_attempts, rs_args, rs_poi, rs_pois_ret, searches,
                   poiVars, gwVars, httpVars>>

\* run_search, second try block: get_weather raises, st.warning(...)
RunSearchWeatherExc ==
    /\ app_pc = "weather"
    /\ rs_wx' = "exc"
    /\ app_pc' = "idle"
    /\ run_end' = "done"
    /\ UNCHANGED <<sessionVars, place_name, geo_depth, geo_attempts, rs_args, rs_poi,
                   rs_pois_ret, rs_wx_ret, searches, poiVars, gwVars, httpVars>>

-----------------------------------------------------------------------------
(* Properties of the page script, checked under SpecApp                    *)

\* C2: a geocode call makes at most 2 upstream attempts, and a run whose
\* geocoding failed starts no POI and no weather fetch.
C2_GeocodeAtMostTwoAttempts ==
    /\ geo_attempts <= 2
    /\ run_end = "geocode_raised" => (rs_poi = "none" /\ rs_wx = "none" /\ rs_args = <<>>)

\* C4: no exception of either fetch leaves run_search; when run_search is
\* over, the weather fetch was attempted whatever the POI fetch did, a POI
\* result that was returned is stored (with its centre and label) whatever
\* the weather fetch did, and a weather record that was returned is stored
\* whatever the POI fetch did.
C4_PoiAndWeatherIsolated ==
    /\ (app_pc = "idle" /\ rs_args # <<>>) => run_end = "done"
    /\ (run_end = "done" /\ rs_args # <<>>) =>
          /\ rs_poi \in {"ok", "exc"}
          /\ rs_wx \in {"ok", "exc"}
          /\ rs_poi = "ok" =>
                /\ ss_pois = Val(rs_pois_ret)
                /\ ss_center = <<rs_args[1], rs_args[2]>>
                /\ ss_last_place = Some(rs_args[3])
          /\ rs_wx = "ok" => ss_weather = rs_wx_ret
    /\ (app_pc = "idle" /\ rs_poi # "none") => rs_wx # "none"

\* the POI fetch failed, the weather fetch was made and its record stored
C4_Witness ==
    /\ run_end = "done"
    /\ rs_poi = "exc"
    /\ rs_wx = "ok"
    /\ ss_weather = rs_wx_ret
    /\ ss_weather # None

\* C11: after any sequence of run_search calls (no call in progress),
\* whenever the session holds both a last_place and a weather record, the
\* weather record was fetched for the coordinates stored as center_lat /
\* center_lon, and the stored pois were fetched for that centre.
C11_WeatherAndPoisForStoredCenter ==
    (app_pc = "idle" /\ ss_last_place # None /\ ss_weather # None) =>
        /\ weather_for = ss_center
        /\ pois_for = ss_center

\* the part of C11 about the pois alone: they are always those of the stored centre
C11_PoisForStoredCenter ==
    ss_last_place # None => (pois_for = ss_center /\ ss_center # <<>>)

-----------------------------------------------------------------------------
(* Specifications                                                          *)

\* no fetch_pois call in progress
PoiIdle ==
    /\ upstream = None
    /\ q_lat = 1 /\ q_lon = 1
    /\ q_limit = 1
    /\ ov_i = 1
    /\ ov_log = <<>>
    /\ ov_pc = "idle"
    /\ ov_ret = None
    /\ fp_pc = "idle"
    /\ fp_results = <<>>

\* no get_weather call in progress
WeatherIdle ==
    /\ cfg_key = TRUE
    /\ cfg_onecall = TRUE
    /\ gw_pc = "idle"
    /\ gw_calls = <<>>
    /\ gw_oc = None /\ gw_cur = None /\ gw_fc = None
    /\ oc_norm = None /\ lg_norm = None
    /\ gw_ret = None /\ gw_err = None
    /\ h_pc = "idle"
    /\ h_n = 0
    /\ h_last_err = None
    /\ h_log = <<>>
    /\ h_ret = None /\ h_err = None

\* the session before any search: the defaults of the script
SessionDefaults ==
    /\ ss_pois = <<>>
    /\ ss_center = <<>>
    /\ ss_zoom = 5
    /\ ss_last_place = None
    /\ ss_weather = None
    /\ pois_for = <<>>
    /\ weather_for = <<>>

\* no handler running
AppIdle ==
    /\ SessionDefaults
    /\ app_pc = "off"
    /\ place_name = ""
    /\ geo_depth = 0
    /\ geo_attempts = 0
    /\ run_end = "none"
    /\ rs_args = <<>>
    /\ rs_poi = "none" /\ rs_wx = "none"
    /\ rs_pois_ret = None /\ rs_wx_ret = None
    /\ searches = 0

\* a call fetch_pois(lat, lon, radius, kv_list, keyword, limit)
InitPoi ==
    /\ upstream \in { None } \cup { Some(l) : l \in ElementLists }
    /\ \E c \in Centers : q_lat = c[1] /\ q_lon = c[2]
    /\ q_limit \in 1..MaxLimit
    /\ ov_i = 1
    /\ ov_log = <<>>
    /\ ov_pc = "loop"
    /\ ov_ret = None
    /\ fp_pc = "call"
    /\ fp_results = <<>>
    /\ WeatherIdle
    /\ AppIdle

NextPoi == OverpassSucceed \/ OverpassFail \/ OverpassRaise \/ FetchPoisReturn

SpecPoi == InitPoi /\ [][NextPoi]_vars

\* a call get_weather(lat, lon) under some configuration
InitWeather ==
    /\ cfg_key \in BOOLEAN
    /\ cfg_onecall \in BOOLEAN
    /\ gw_pc = "start"
    /\ gw_calls = <<>>
    /\ gw_oc = None /\ gw_cur = None /\ gw_fc = None
    /\ oc_norm = None /\ lg_norm = None
    /\ gw_ret = None /\ gw_err = None
    /\ h_pc = "idle"
    /\ h_n = 0
    /\ h_last_err = None
    /\ h_log = <<>>
    /\ h_ret = None /\ h_err = None
    /\ PoiIdle
    /\ AppIdle

NextWeather ==
    \/ EnsureApiKeyRaise \/ StartOnecall \/ StartLegacy
    \/ HttpGet200 \/ HttpGetNon200 \/ HttpGetException \/ HttpGetRaise
    \/ OnecallUsed \/ OnecallNormalizeRaised \/ OnecallNoCurrent \/ OnecallFailed
    \/ CurrentReturned \/ LegacyFetchFailed \/ ForecastReturned \/ LegacyNormalizeRaised

SpecWeather == InitWeather /\ [][NextWeather]_vars

\* a session of the page
InitApp ==
    /\ SessionDefaults
    /\ app_pc = "idle"
    /\ place_name = ""
    /\ geo_depth = 0
    /\ geo_attempts = 0
    /\ run_end = "none"
    /\ rs_args = <<>>
    /\ rs_poi = "none" /\ rs_wx = "none"
    /\ rs_pois_ret = None /\ rs_wx_ret = None
    /\ searches = 0
    /\ PoiIdle
    /\ WeatherIdle

NextApp ==
    \/ SearchClick \/ GeocodeFound \/ GeocodeNotFound \/ GeocodeRetry \/ GeocodeRecursionError
    \/ MapClick
    \/ RunSearchPoisOk \/ RunSearchPoisExc \/ RunSearchWeatherOk \/ RunSearchWeatherExc

SpecApp == InitApp /\ [][NextApp]_vars

-----------------------------------------------------------------------------
(* Properties of get_weather / _http_get / the normalizers, checked under  *)
(* SpecWeather                                                             *)

CalledUrls == { gw_calls[k] : k \in 1..Len(gw_calls) }

\* C3: with primary mode on, the one-call endpoint is called first and no
\* failure of it leaves get_weather (an exception is raised only once the
\* legacy path was entered); a record of source one-call is returned only
\* with a usable current; with primary mode off the one-call endpoint is
\* never called.
C3_PrimaryThenSilentFallback ==
    /\ (cfg_onecall /\ gw_calls # <<>>) => gw_calls[1] = ONECALL_URL
    /\ ~cfg_onecall => ONECALL_URL \notin CalledUrls
    /\ (gw_pc = "raised" /\ cfg_key) => CURRENT_URL \in CalledUrls
    /\ (gw_pc = "returned" /\ Val(gw_ret).source = "onecall_3_0") =>
           Val(gw_ret).current # None

\* the one-call payload has "dt" in every entry the normalizer reads it from
\* (c["dt"] is the one field the normalizer requires)
HasEveryDt(oc) ==
    /\ CurrentTruthy(oc) => Val(oc.current).dt # None
    /\ \A k \in 1..Len(ListOf(oc.hourly, HOURLY_MAX)) : ListOf(oc.hourly, HOURLY_MAX)[k].dt # None
    /\ \A k \in 1..Len(ListOf(oc.daily, DAILY_MAX_ONECALL)) :
           ListOf(oc.daily, DAILY_MAX_ONECALL)[k].dt # None

\* C7: neither normalizer raises on a payload that lacks optional fields
\* only (the legacy normalizer requires no field at all).
C7_NormalizersNeverRaise ==
    /\ (oc_norm # None /\ HasEveryDt(Val(gw_oc))) => Val(oc_norm).exc = ""
    /\ lg_norm # None => Val(lg_norm).exc = ""

\* C8: _http_get makes at most 3 attempts; every attempt but the last one
\* of a call failed; it returns exactly after an attempt answered 200, with
\* that attempt's body; it raises exactly after 3 failed attempts, with the
\* error of the third.
C8_ThreeAttemptsLastErrorRaised ==
    /\ h_n <= 3
    /\ Len(h_log) = h_n
    /\ \A k \in 1..(Len(h_log) - 1) : ~h_log[k].ok
    /\ h_pc = "loop" => (h_ret = None /\ h_err = None /\ \A k \in 1..Len(h_log) : ~h_log[k].ok)
    /\ h_pc = "returned" =>
          /\ h_n >= 1
          /\ h_log[h_n].ok
          /\ h_ret = h_log[h_n].body
          /\ h_err = None
    /\ h_pc = "raised" =>
          /\ h_n = 3
          /\ \A k \in 1..3 : ~h_log[k].ok
          /\ h_err = h_log[3].err
          /\ h_ret = None

\* three failed attempts, the first with another error than the last
C8_Witness ==
    /\ h_pc = "raised"
    /\ h_n = 3
    /\ h_log[1].err # h_log[3].err
    /\ h_err = h_log[3].err

\* C9: when the legacy normalizer returns, its daily points are the groups
\* of forecast entries of one local date (dt + tz_offset, in days since the
\* epoch), in the order the dates first occur in the list, the first 7 of
\* them only; each carries the least and the greatest temperature and the
\* greatest pop of its entries.
C9_DailyGroupsByLocalDate ==
    (lg_norm # None /\ Val(lg_norm).exc = "") =>
       LET rec == Val(lg_norm).val[1]
           list == IF Val(gw_fc).list = None THEN <<>> ELSE Val(Val(gw_fc).list)
           LocalDay(i) == (GetOr0(list[i].dt) + rec.tz_offset) \div 86400
           days == { LocalDay(i) : i \in 1..Len(list) }
           Group(d) == { i \in 1..Len(list) : LocalDay(i) = d }
           FirstIdx(d) == CHOOSE i \in Group(d) : \A j \in Group(d) : i <= j
           Rank(d) == Cardinality({ e \in days : FirstIdx(e) < FirstIdx(d) }) + 1
           Temp(i) == IF list[i].main = None THEN None ELSE Val(list[i].main).temp
           Pop(i) == IF list[i].pop = None THEN 0 ELSE Val(list[i].pop)
       IN /\ Len(rec.daily) = Min2(7, Cardinality(days))
          /\ \A d \in days :
                Rank(d) <= 7 =>
                   LET p == rec.daily[Rank(d)] IN
                   /\ p.dt_local \div 86400 = d
                   /\ IF \E i \in Group(d) : Temp(i) = None
                      THEN Cardinality(Group(d)) = 1 /\ p.t_min = None /\ p.t_max = None
                      ELSE /\ \E i \in Group(d) : p.t_min = Temp(i)
                           /\ \A i \in Group(d) : Val(p.t_min) <= Val(Temp(i))
                           /\ \E i \in Group(d) : p.t_max = Temp(i)
                           /\ \A i \in Group(d) : Val(p.t_max) >= Val(Temp(i))
                   /\ \E i \in Group(d) : p.pop = Pop(i)
                   /\ \A i \in Group(d) : p.pop >= Pop(i)

\* a list of three entries of one UTC date that the offset splits over two
\* local dates: 2 groups, one of them aggregating two temperatures
C9_Witness ==
    /\ gw_pc = "returned"
    /\ lg_norm # None /\ Val(lg_norm).exc = ""
    /\ Val(gw_ret).tz_offset = 10800
    /\ Val(gw_fc).list # None
    /\ LET list == Val(Val(gw_fc).list) IN
          /\ Len(list) = 3
          /\ \A i \in 1..3 : list[i].dt # None /\ Val(list[i].dt) \div 86400 = 0
    /\ Len(Val(gw_ret).daily) = 2
    /\ \E k \in 1..2 : Val(Val(gw_ret).daily[k].t_min) < Val(Val(gw_ret).daily[k].t_max)

====
